---- MODULE Spec2Model ----
(***************************************************************************)
(* Linx utility scripts.                                                   *)
(*                                                                         *)
(*   doc/diagrams/plot.py: the bar-chart plotter, a top-to-bottom script   *)
(*   modelled one statement per action (SpecPlot).                         *)
(*                                                                         *)
(*   LinxRun/python/LinxRun/LinxBenchmarkPythonConvolution.py: the         *)
(*   convolution benchmark's mainMethod, one statement per action, with    *)
(*   the wall clock as environment (SpecConv).                             *)
(***************************************************************************)
EXTENDS Integers, Sequences, FiniteSets, TLC

\* ------------------------------------------------------------------ bounds
MaxCols == 4
MaxHue == 2
MaxImage == 3
MaxKernel == 2
MaxClock == 2

\* ------------------------------------------------------------- plot: data
None == "None"

ColumnNames == {"category", "group", "value", "extra", "more"}

OutputPaths == {"out.png", "out.svg"}

\* Header rows pandas can load: at least one column (read_csv raises on a
\* file without any), and distinct column labels.
Tables ==
    UNION {{s \in [1..n -> ColumnNames] : \A i, j \in 1..n : s[i] = s[j] => i = j}
           : n \in 1..MaxCols}

ArgsPlot == [output : OutputPaths \cup {None}, log : BOOLEAN, values : BOOLEAN]

Undefined == [defined |-> FALSE]

NoFigure == [axes |-> FALSE]

VARIABLES
    pc,          \* position in the running script
    args,        \* parsed command line
    df,          \* columns of the loaded table (df.columns)
    hueLevels,   \* distinct values of the middle column of the table
    ax,          \* the global name `ax`
    figure,      \* pyplot's current figure
    it,          \* position of the `for i in ax.containers` loop
    calls,       \* library calls made so far, in order
    displayed,   \* a window showing a figure was opened
    written,     \* path of the file savefig wrote
    error        \* exception that ended the script

\* Convolution benchmark: locals of mainMethod and its environment.
VARIABLES
    image_shape,   \* (image_diameter, image_diameter)
    kernel_shape,  \* (kernel_diameter, kernel_diameter)
    heap,          \* array buffers allocated so far, by reference
    image,         \* the name `image`: a reference into heap, 0 when unbound
    kernel,        \* the name `kernel`
    start,         \* <<t>> once read
    end,           \* <<t>> once read
    clock          \* the system's wall clock

plotVars == <<df, hueLevels, ax, figure, it, displayed, written>>

convVars == <<image_shape, kernel_shape, heap, image, kernel, start, end, clock>>

vars == <<pc, args, calls, error, plotVars, convVars>>

Call(fn, a) == [fn |-> fn, a |-> a]

CallsOf(fn) == SelectSeq(calls, LAMBDA c : c.fn = fn)

\* seaborn.barplot(data=df, x=x, y=y[, hue=hue]): draws into the current
\* axes and returns them; one bar container without hue, one per hue level
\* with hue.
barplot(x, hue, y, levels) ==
    [defined |-> TRUE, x |-> x, hue |-> hue, y |-> y,
     yscale |-> "linear", containers |-> IF hue = None THEN 1 ELSE levels,
     labelled |-> {}]

InitPlotVars ==
    /\ pc = "read_csv"
    /\ args \in ArgsPlot
    /\ df = <<>>
    /\ hueLevels = 0
    /\ ax = Undefined
    /\ figure = NoFigure
    /\ it = 0
    /\ calls = <<>>
    /\ displayed = FALSE
    /\ written = None
    /\ error = None

\* df = pd.read_csv(args.input, sep='\t'); print(df)
ReadCsv ==
    /\ pc = "read_csv"
    /\ UNCHANGED convVars
    /\ \E t \in Tables, h \in 1..MaxHue :
          /\ df' = t
          /\ hueLevels' = h
    /\ calls' = calls \o <<Call("read_csv", <<>>), Call("print", <<>>)>>
    /\ pc' = "if_two"
    /\ UNCHANGED <<args, ax, figure, it, displayed, written, error>>

\* if len(df.columns) == 2: x, y = df.columns; ax = sns.barplot(...)
\* (variant: the test is >= 2, the last column the value)
MBranchTwoAtLeast ==
    /\ pc = "if_two"
    /\ UNCHANGED convVars
    /\ IF Len(df) >= 2
          THEN /\ ax' = barplot(df[1], None, df[Len(df)], hueLevels)
               /\ figure' = [axes |-> TRUE]
               /\ calls' = Append(calls, Call("barplot", <<df[1], None, df[Len(df)]>>))
          ELSE UNCHANGED <<ax, figure, calls>>
    /\ pc' = "if_three"
    /\ UNCHANGED <<args, df, hueLevels, it, displayed, written, error>>

BranchTwo ==
    /\ pc = "if_two"
    /\ UNCHANGED convVars
    /\ IF Len(df) = 2
          THEN /\ ax' = barplot(df[1], None, df[2], hueLevels)
               /\ figure' = [axes |-> TRUE]
               /\ calls' = Append(calls, Call("barplot", <<df[1], None, df[2]>>))
          ELSE UNCHANGED <<ax, figure, calls>>
    /\ pc' = "if_three"
    /\ UNCHANGED <<args, df, hueLevels, it, displayed, written, error>>

\* if len(df.columns) == 3: x, hue, y = df.columns; ax = sns.barplot(...)
BranchThree ==
    /\ pc = "if_three"
    /\ UNCHANGED convVars
    /\ IF Len(df) = 3
          THEN /\ ax' = barplot(df[1], df[2], df[3], hueLevels)
               /\ figure' = [axes |-> TRUE]
               /\ calls' = Append(calls, Call("barplot", <<df[1], df[2], df[3]>>))
          ELSE UNCHANGED <<ax, figure, calls>>
    /\ pc' = "if_log"
    /\ UNCHANGED <<args, df, hueLevels, it, displayed, written, error>>

\* Reading the global `ax` before any assignment raises NameError, which
\* nothing catches: the script ends there.
RaiseNameError ==
    /\ pc' = "failed"
    /\ error' = "NameError"
    /\ UNCHANGED <<args, df, hueLevels, ax, figure, it, calls, displayed, written>>

\* if args.log: ax.set_yscale('log')
\* (variant: the test reads args.values)
MLogScaleOnValues ==
    /\ pc = "if_log"
    /\ UNCHANGED convVars
    /\ IF args.values
          THEN IF ax.defined
                  THEN /\ ax' = [ax EXCEPT !.yscale = "log"]
                       /\ calls' = Append(calls, Call("set_yscale", <<"log">>))
                       /\ pc' = "if_values"
                       /\ UNCHANGED <<args, df, hueLevels, figure, it,
                                      displayed, written, error>>
                  ELSE RaiseNameError
          ELSE /\ pc' = "if_values"
               /\ UNCHANGED <<args, df, hueLevels, ax, figure, it, calls,
                              displayed, written, error>>

LogScale ==
    /\ pc = "if_log"
    /\ UNCHANGED convVars
    /\ IF args.log
          THEN IF ax.defined
                  THEN /\ ax' = [ax EXCEPT !.yscale = "log"]
                       /\ calls' = Append(calls, Call("set_yscale", <<"log">>))
                       /\ pc' = "if_values"
                       /\ UNCHANGED <<args, df, hueLevels, figure, it,
                                      displayed, written, error>>
                  ELSE RaiseNameError
          ELSE /\ pc' = "if_values"
               /\ UNCHANGED <<args, df, hueLevels, ax, figure, it, calls,
                              displayed, written, error>>

\* if args.values: for i in ax.containers:
Values ==
    /\ pc = "if_values"
    /\ UNCHANGED convVars
    /\ IF args.values
          THEN IF ax.defined
                  THEN /\ it' = 1
                       /\ pc' = "for_containers"
                       /\ UNCHANGED <<args, df, hueLevels, ax, figure, calls,
                                      displayed, written, error>>
                  ELSE RaiseNameError
          ELSE /\ pc' = "output"
               /\ UNCHANGED <<args, df, hueLevels, ax, figure, it, calls,
                              displayed, written, error>>

\* ax.bar_label(i,), once per container; the loop ends after the last one.
BarLabel ==
    /\ pc = "for_containers"
    /\ UNCHANGED convVars
    /\ IF it <= ax.containers
          THEN /\ ax' = [ax EXCEPT !.labelled = @ \cup {it}]
               /\ calls' = Append(calls, Call("bar_label", <<ToString(it)>>))
               /\ it' = it + 1
               /\ pc' = pc
          ELSE /\ pc' = "output"
               /\ UNCHANGED <<ax, calls, it>>
    /\ UNCHANGED <<args, df, hueLevels, figure, displayed, written, error>>

\* if args.output is None: plt.show() else: plt.savefig(args.output)
\* show() opens a window only when a figure exists; savefig() takes the
\* current figure, creating an empty one when there is none, and writes it.
\* (variant: both calls, no else)
MOutputBoth ==
    /\ pc = "output"
    /\ UNCHANGED convVars
    /\ calls' = calls \o <<Call("show", <<>>), Call("savefig", <<args.output>>)>>
    /\ displayed' = figure.axes
    /\ written' = args.output
    /\ pc' = "done"
    /\ UNCHANGED <<args, df, hueLevels, ax, figure, it, error>>

Output ==
    /\ pc = "output"
    /\ UNCHANGED convVars
    /\ IF args.output = None
          THEN /\ calls' = Append(calls, Call("show", <<>>))
               /\ displayed' = figure.axes
               /\ UNCHANGED written
          ELSE /\ calls' = Append(calls, Call("savefig", <<args.output>>))
               /\ written' = args.output
               /\ UNCHANGED displayed
    /\ pc' = "done"
    /\ UNCHANGED <<args, df, hueLevels, ax, figure, it, error>>

NextPlotSteps ==
    \/ ReadCsv
    \/ BranchTwo
    \/ BranchThree
    \/ LogScale
    \/ Values
    \/ BarLabel
    \/ Output

InitConvIdle ==
    /\ image_shape = <<>>
    /\ kernel_shape = <<>>
    /\ heap = <<>>
    /\ image = 0
    /\ kernel = 0
    /\ start = <<>>
    /\ end = <<>>
    /\ clock = 0

InitPlot == InitPlotVars /\ InitConvIdle

NextPlot == NextPlotSteps

SpecPlot == InitPlot /\ [][NextPlot]_vars

\* ------------------------------------------------- benchmark: numpy, scipy
RECURSIVE Pow2(_)
Pow2(n) == IF n = 0 THEN 1 ELSE 2 * Pow2(n - 1)

\* dtype=np.float32: 24 significant bits.
MantissaBits == 24

RECURSIVE F32Ulp(_)
F32Ulp(v) == IF v < Pow2(MantissaBits) THEN 1 ELSE 2 * F32Ulp(v \div 2)

\* The float32 nearest to the natural number v (ties to even).
F32(v) ==
    LET u == F32Ulp(v)
        q == v \div u
        rem == v % u
    IN  IF 2 * rem < u THEN q * u
        ELSE IF 2 * rem > u THEN (q + 1) * u
        ELSE IF q % 2 = 0 THEN q * u
        ELSE (q + 1) * u

\* Smallest diameter whose square exceeds the exactly representable range.
BigDiameter == Pow2(MantissaBits \div 2) + 1

ImageDiameters == {-1} \cup (1..MaxImage) \cup {BigDiameter - 1, BigDiameter}

KernelDiameters == {-1, 0} \cup (1..MaxKernel)

SupportedModes == {"reflect", "constant", "nearest", "mirror", "wrap"}

Extrapolations == SupportedModes \cup {"bogus"}

ArgsConv == [image : ImageDiameters, kernel : KernelDiameters,
             extrapolation : Extrapolations]

Ok(v) == [ok |-> TRUE, val |-> v]

Raise(e) == [ok |-> FALSE, exc |-> e]

\* np.prod(shape)
prod(shape) == shape[1] * shape[2]

\* np.arange(n, dtype=np.float32): element i is float32(0 + i * 1).
\* (variant: the range starts at 1)
MArangeFromOne(n) ==
    [shape |-> <<n>>, data |-> [kind |-> "arange", first |-> 1]]

arange(n) ==
    [shape |-> <<n>>, data |-> [kind |-> "arange", first |-> 0]]

\* a.reshape(shape): the same data under a new shape, row-major; raises
\* for a negative dimension (two unknowns) or a size mismatch.
reshape(a, shape) ==
    IF \E i \in 1..Len(shape) : shape[i] < 0
       THEN Raise("ValueError")
    ELSE IF prod(shape) # a.shape[1]
       THEN Raise("ValueError")
    ELSE Ok([shape |-> shape, data |-> a.data])

\* a[r, c] of a two-dimensional array over arange data.
ElementAt(a, r, c) == F32(a.data.first + r * a.shape[2] + c)

\* ndimage.convolve(input, weights, output=output, mode=mode): the checks
\* it makes before filtering, then the filtered array, of the input's shape.
convolve(input, weights, output, mode) ==
    IF output.shape # input.shape
       THEN Raise("RuntimeError")
    ELSE IF \E i \in 1..Len(weights.shape) : weights.shape[i] <= 0
       THEN Raise("RuntimeError")
    ELSE IF mode \notin SupportedModes
       THEN Raise("RuntimeError")
    ELSE Ok([shape |-> input.shape,
             data |-> [kind |-> "convolved", of |-> input.data,
                       weights |-> weights, mode |-> mode]])

\* (end - start) * 1000
Elapsed(s, e) == (e - s) * 1000

\* An exception no handler catches ends mainMethod.
Propagate(made, exc) ==
    /\ pc' = "failed"
    /\ error' = exc
    /\ calls' = Append(made, Call("raise", <<exc>>))

\* Statement order of mainMethod, lines 27-38.
\* (variant: the start time is read before the input is logged)
MAfterLoggingTimed(p) ==
    CASE p = "main"         -> "gen_image"
      [] p = "gen_image"    -> "gen_kernel"
      [] p = "gen_kernel"   -> "read_start"
      [] p = "read_start"   -> "log_input"
      [] p = "log_input"    -> "convolve"
      [] p = "convolve"     -> "read_end"
      [] p = "read_end"     -> "log_output"
      [] p = "log_output"   -> "log_done"
      [] p = "log_done"     -> "done"

After(p) ==
    CASE p = "main"         -> "gen_image"
      [] p = "gen_image"    -> "gen_kernel"
      [] p = "gen_kernel"   -> "log_input"
      [] p = "log_input"    -> "read_start"
      [] p = "read_start"   -> "convolve"
      [] p = "convolve"     -> "read_end"
      [] p = "read_end"     -> "log_output"
      [] p = "log_output"   -> "log_done"
      [] p = "log_done"     -> "done"

InitConvVars ==
    /\ pc = "main"
    /\ args \in ArgsConv
    /\ calls = <<>>
    /\ error = None
    /\ image_shape = <<>>
    /\ kernel_shape = <<>>
    /\ heap = <<>>
    /\ image = 0
    /\ kernel = 0
    /\ start = <<>>
    /\ end = <<>>
    /\ clock = 1

InitPlotIdle ==
    /\ df = <<>>
    /\ hueLevels = 0
    /\ ax = Undefined
    /\ figure = NoFigure
    /\ it = 0
    /\ displayed = FALSE
    /\ written = None

\* Lines 19-27: the shapes, and the first log line.
Main ==
    /\ pc = "main"
    /\ image_shape' = <<args.image, args.image>>
    /\ kernel_shape' = <<args.kernel, args.kernel>>
    /\ calls' = Append(calls, Call("info", <<"Generating raster and kernel...">>))
    /\ pc' = After(pc)
    /\ UNCHANGED <<args, error, plotVars, heap, image, kernel, start, end, clock>>

\* image = np.arange(np.prod(image_shape), dtype=np.float32).reshape(image_shape)
GenerateImage ==
    /\ pc = "gen_image"
    /\ LET r == reshape(arange(prod(image_shape)), image_shape)
       IN  IF r.ok
              THEN /\ heap' = Append(heap, r.val)
                   /\ image' = Len(heap) + 1
                   /\ calls' = Append(calls, Call("arange", <<"image">>))
                   /\ pc' = After(pc)
                   /\ UNCHANGED error
              ELSE /\ Propagate(calls, r.exc)
                   /\ UNCHANGED <<heap, image>>
    /\ UNCHANGED <<args, plotVars, image_shape, kernel_shape, kernel, start, end, clock>>

\* kernel = np.arange(np.prod(kernel_shape), dtype=np.float32).reshape(kernel_shape)
GenerateKernel ==
    /\ pc = "gen_kernel"
    /\ LET r == reshape(arange(prod(kernel_shape)), kernel_shape)
       IN  IF r.ok
              THEN /\ heap' = Append(heap, r.val)
                   /\ kernel' = Len(heap) + 1
                   /\ calls' = Append(calls, Call("arange", <<"kernel">>))
                   /\ pc' = After(pc)
                   /\ UNCHANGED error
              ELSE /\ Propagate(calls, r.exc)
                   /\ UNCHANGED <<heap, kernel>>
    /\ UNCHANGED <<args, plotVars, image_shape, kernel_shape, image, start, end, clock>>

\* logger.debug(f'  input: {image}'): the array is formatted at the call.
LogInput ==
    /\ pc = "log_input"
    /\ calls' = Append(calls, Call("debug", <<"input", image, heap[image]>>))
    /\ pc' = After(pc)
    /\ UNCHANGED <<args, error, plotVars, convVars>>

\* logger.info('Filtering...'); start = time.time()
ReadStart ==
    /\ pc = "read_start"
    /\ start' = <<clock>>
    /\ calls' = calls \o <<Call("info", <<"Filtering...">>), Call("time", <<"start">>)>>
    /\ pc' = After(pc)
    /\ UNCHANGED <<args, error, plotVars, image_shape, kernel_shape, heap,
                   image, kernel, end, clock>>

\* ndimage.convolve(image, kernel, output=image, mode=extrapolation)
\* (variants: image = ndimage.convolve(image, kernel, mode=...), and the
\* call wrapped in try/except: pass)
MConvolveRebinding ==
    /\ pc = "convolve"
    /\ LET r == convolve(heap[image], heap[kernel], heap[image], args.extrapolation)
           made == Append(calls, Call("convolve", <<image, kernel>>))
       IN  IF r.ok
              THEN /\ heap' = Append(heap, r.val)
                   /\ image' = Len(heap) + 1
                   /\ calls' = made
                   /\ pc' = After(pc)
                   /\ UNCHANGED error
              ELSE /\ Propagate(made, r.exc)
                   /\ UNCHANGED <<heap, image>>
    /\ UNCHANGED <<args, plotVars, image_shape, kernel_shape, kernel,
                   start, end, clock>>

MConvolveSwallowing ==
    /\ pc = "convolve"
    /\ LET r == convolve(heap[image], heap[kernel], heap[image], args.extrapolation)
           made == Append(calls, Call("convolve", <<image, kernel>>))
       IN  IF r.ok
              THEN /\ heap' = [heap EXCEPT ![image] = r.val]
                   /\ calls' = made
              ELSE /\ calls' = Append(made, Call("raise", <<r.exc>>))
                   /\ UNCHANGED heap
    /\ pc' = After(pc)
    /\ UNCHANGED <<args, error, plotVars, image_shape, kernel_shape, image, kernel,
                   start, end, clock>>

Convolve ==
    /\ pc = "convolve"
    /\ LET r == convolve(heap[image], heap[kernel], heap[image], args.extrapolation)
           made == Append(calls, Call("convolve", <<image, kernel>>))
       IN  IF r.ok
              THEN /\ heap' = [heap EXCEPT ![image] = r.val]
                   /\ calls' = made
                   /\ pc' = After(pc)
                   /\ UNCHANGED error
              ELSE /\ Propagate(made, r.exc)
                   /\ UNCHANGED heap
    /\ UNCHANGED <<args, plotVars, image_shape, kernel_shape, image, kernel,
                   start, end, clock>>

\* end = time.time()
ReadEnd ==
    /\ pc = "read_end"
    /\ end' = <<clock>>
    /\ calls' = Append(calls, Call("time", <<"end">>))
    /\ pc' = After(pc)
    /\ UNCHANGED <<args, error, plotVars, image_shape, kernel_shape, heap,
                   image, kernel, start, clock>>

\* logger.debug(f'  output: {image}')
LogOutput ==
    /\ pc = "log_output"
    /\ calls' = Append(calls, Call("debug", <<"output", image, heap[image]>>))
    /\ pc' = After(pc)
    /\ UNCHANGED <<args, error, plotVars, convVars>>

\* logger.info(f'  Done in: {(end - start) * 1000} ms')
LogDone ==
    /\ pc = "log_done"
    /\ calls' = Append(calls, Call("info", <<"Done in", Elapsed(start[1], end[1])>>))
    /\ pc' = After(pc)
    /\ UNCHANGED <<args, error, plotVars, convVars>>

Running == pc \notin {"done", "failed"}

\* time.time() reads the system's wall clock: time passes while the
\* script runs ...
Tick ==
    /\ Running
    /\ clock < MaxClock
    /\ clock' = clock + 1
    /\ UNCHANGED <<pc, args, calls, error, plotVars, image_shape, kernel_shape,
                   heap, image, kernel, start, end>>

\* ... and the system clock may be set back (an administrator, a time
\* synchronisation step) between two readings.
ClockSetBack ==
    /\ Running
    /\ \E t \in 0..(clock - 1) : clock' = t
    /\ UNCHANGED <<pc, args, calls, error, plotVars, image_shape, kernel_shape,
                   heap, image, kernel, start, end>>

InitConv == InitConvVars /\ InitPlotIdle

NextConv ==
    \/ Main
    \/ GenerateImage
    \/ GenerateKernel
    \/ LogInput
    \/ ReadStart
    \/ Convolve
    \/ ReadEnd
    \/ LogOutput
    \/ LogDone
    \/ Tick
    \/ ClockSetBack

SpecConv == InitConv /\ [][NextConv]_vars

\* ---------------------------------------------------------- properties
BranchesDone == pc \notin {"read_csv", "if_two", "if_three"}

Finished == pc \in {"done", "failed"}

\* C1: a two-column table gets exactly the simple bar-plot call (x the first
\* column, y the last, no hue), a three-column table exactly the grouped one
\* (x the first, hue the middle, y the last); never both calls.
C1_BranchByColumnCount ==
    BranchesDone =>
        /\ Len(df) = 2 =>
              /\ CallsOf("barplot") = <<Call("barplot", <<df[1], None, df[2]>>)>>
              /\ ax.defined /\ ax.x = df[1] /\ ax.hue = None /\ ax.y = df[2]
        /\ Len(df) = 3 =>
              /\ CallsOf("barplot") = <<Call("barplot", <<df[1], df[2], df[3]>>)>>
              /\ ax.defined /\ ax.x = df[1] /\ ax.hue = df[2] /\ ax.y = df[3]
        /\ Len(CallsOf("barplot")) <= 1

C1_Witness ==
    /\ pc = "if_log"
    /\ Len(df) = 3
    /\ Len(CallsOf("barplot")) = 1
    /\ ax.hue = df[2]

\* C2: for a table of 1, 4 or more columns no bar-plot call is made and
\* the run ends with nothing displayed and nothing saved to the output path,
\* whatever the flags and the output argument.
C2_NoOutputForOtherColumnCounts ==
    (Finished /\ Len(df) \notin {2, 3}) =>
        /\ CallsOf("barplot") = <<>>
        /\ ~displayed
        /\ written = None

C4_FlagsApplied ==
    (pc \in {"output", "done"} /\ Len(df) \in {2, 3}) =>
        /\ ax.yscale = (IF args.log THEN "log" ELSE "linear")
        /\ ax.labelled = (IF args.values THEN 1..ax.containers ELSE {})
        /\ Len(CallsOf("set_yscale")) = (IF args.log THEN 1 ELSE 0)
        /\ Len(CallsOf("bar_label")) = (IF args.values THEN ax.containers ELSE 0)

C4_Witness ==
    /\ pc = "done"
    /\ Len(df) = 3
    /\ args.values /\ ~args.log
    /\ ax.containers = 2
    /\ ax.labelled = {1, 2}
    /\ ax.yscale = "linear"

\* C10: whenever the log-scale step or the value-label step is about to use
\* `ax`, a bar-plot branch has assigned it.
C10_AxDefinedWhenUsed ==
    ((pc = "if_log" /\ args.log) \/ (pc = "if_values" /\ args.values))
        => ax.defined

\* Indices inspected on each axis: all of them up to six, the three first
\* and the three last beyond.
Probes(n) == {i \in 0..(n - 1) : i < 3 \/ i >= n - 3}

\* Both arrays exist and the convolution has not run; sizes are positive.
Generated ==
    /\ pc \in {"log_input", "read_start", "convolve"}
    /\ args.image > 0
    /\ args.kernel > 0

ShapesAsRequested ==
    /\ heap[image].shape = <<args.image, args.image>>
    /\ heap[kernel].shape = <<args.kernel, args.kernel>>

\* C5 (as stated): before the convolution the image has shape (N,N), the
\* kernel shape (K,K), and the element at row r, column c equals r*N + c
\* (r*K + c for the kernel), for every N and K.
C5_SequentialValues ==
    Generated =>
        /\ ShapesAsRequested
        /\ \A r, c \in Probes(args.image) :
              ElementAt(heap[image], r, c) = r * args.image + c
        /\ \A r, c \in Probes(args.kernel) :
              ElementAt(heap[kernel], r, c) = r * args.kernel + c

\* C5 (amended): the shapes are (N,N) and (K,K); the element at row r,
\* column c is the float32 nearest to r*N + c, which is r*N + c itself
\* whenever r*N + c <= 2^24, hence for every element when N <= 4096.
C5_SequentialValuesFloat32 ==
    Generated =>
        /\ ShapesAsRequested
        /\ \A r, c \in Probes(args.image) :
              LET i == r * args.image + c
                  v == ElementAt(heap[image], r, c)
              IN  /\ i <= Pow2(MantissaBits) => v = i
                  /\ 2 * (v - i) <= F32Ulp(i) /\ 2 * (i - v) <= F32Ulp(i)
        /\ \A r, c \in Probes(args.kernel) :
              ElementAt(heap[kernel], r, c) = r * args.kernel + c

C5_Witness ==
    /\ pc = "read_start"
    /\ args.image = BigDiameter
    /\ args.kernel = 2
    /\ ElementAt(heap[image], BigDiameter - 2, 2) = Pow2(MantissaBits)
    /\ ElementAt(heap[image], BigDiameter - 1, BigDiameter - 1)
          = BigDiameter * BigDiameter - 1

IsLog(c, what) == c.fn = "debug" /\ c.a[1] = what

\* C6: the convolution writes into the image buffer: `image` keeps naming
\* the same buffer, of shape (N,N), and the array logged as 'output' is the
\* buffer logged as 'input', with the same shape, holding the result of the
\* convolution under the requested mode, for every K and supported mode.
C6_InPlaceSameShape ==
    /\ image # 0 => heap[image].shape = image_shape
    /\ \A i, j \in DOMAIN calls :
          (IsLog(calls[i], "input") /\ IsLog(calls[j], "output")) =>
              /\ calls[j].a[2] = calls[i].a[2]
              /\ calls[j].a[3].shape = calls[i].a[3].shape
              /\ calls[j].a[3].shape = <<args.image, args.image>>
              /\ calls[j].a[3].data.kind = "convolved"
              /\ calls[j].a[3].data.mode = args.extrapolation
              /\ calls[j].a[3].data.weights.shape = <<args.kernel, args.kernel>>

C6_Witness ==
    /\ pc = "done"
    /\ args.image = 3 /\ args.kernel = 2 /\ args.extrapolation = "wrap"
    /\ heap[image].data.kind = "convolved"
    /\ Len(heap) = 2

\* C7: the elapsed time logged, (end - start) * 1000, is never negative.
C7_ElapsedNonNegative ==
    \A i \in DOMAIN calls :
        (calls[i].fn = "info" /\ calls[i].a[1] = "Done in") => calls[i].a[2] >= 0

Invalid ==
    \/ args.image < 0
    \/ args.kernel <= 0
    \/ args.extrapolation \notin SupportedModes

\* C8: when the array generation or the convolution raises, the exception
\* ends mainMethod as raised: nothing runs after it, the call is not made
\* again, the end time is never read, and neither the 'output' nor the
\* 'Done in' line is logged; and a negative size, an empty kernel or an
\* unsupported mode does raise.
C8_FailurePropagates ==
    /\ (error # None) <=> (pc = "failed")
    /\ \A i \in DOMAIN calls :
          calls[i].fn = "raise" =>
              /\ i = Len(calls)
              /\ pc = "failed"
              /\ error = calls[i].a[1]
    /\ (pc = "failed" \/ Invalid) =>
          /\ end = <<>>
          /\ Len(CallsOf("convolve")) <= 1
          /\ \A i \in DOMAIN calls :
                /\ ~IsLog(calls[i], "output")
                /\ ~(calls[i].fn = "info" /\ calls[i].a[1] = "Done in")
                /\ calls[i] # Call("time", <<"end">>)
    /\ Invalid => pc \notin {"read_end", "log_output", "log_done", "done"}

C8_Witness ==
    /\ pc = "failed"
    /\ error = "RuntimeError"
    /\ args.image = 2 /\ args.kernel = 2 /\ args.extrapolation = "bogus"
    /\ start # <<>>
    /\ calls[Len(calls) - 1].fn = "convolve"

FnTrace == [i \in DOMAIN calls |-> calls[i].fn]

\* C9: a successful run is: generate image and kernel, log the input, read
\* the start time, call the convolution once, read the end time, log the
\* output, log the elapsed time. Only the convolution lies between the two
\* clock readings, and the input is logged as generated.
C9_StepOrder ==
    pc = "done" =>
        /\ FnTrace = <<"info", "arange", "arange", "debug", "info", "time",
                       "convolve", "time", "debug", "info">>
        /\ calls[2].a = <<"image">> /\ calls[3].a = <<"kernel">>
        /\ IsLog(calls[4], "input") /\ calls[4].a[3].data.kind = "arange"
        /\ calls[6].a = <<"start">>
        /\ calls[8].a = <<"end">>
        /\ IsLog(calls[9], "output") /\ calls[9].a[3].data.kind = "convolved"
        /\ calls[10].a[1] = "Done in"
        /\ calls[10].a[2] = (end[1] - start[1]) * 1000

C9_Witness ==
    /\ pc = "done"
    /\ Len(calls) = 10
    /\ args.image = 2 /\ args.kernel = 1 /\ args.extrapolation = "nearest"

====
